---- MODULE Spec2Model ----
(***************************************************************************)
(* Asynchronous actor-learner training (src/dev.py).                       *)
(*                                                                         *)
(* Four specifications share the definitions below:                        *)
(*   Spec      main() and the NUM_CONCURRENT threads train() starts, each  *)
(*             running _actor_learner_thread as written (FairSpec: with    *)
(*             every thread scheduled again and again);                    *)
(*   FlushSpec NUM_CONCURRENT threads running the ops build_graph builds   *)
(*             for a gradient flush (accumulate, copy to the shared slot,  *)
(*             apply, zero, reset the target network), in the order in     *)
(*             which the thread body lists them, the calls it has          *)
(*             commented out included;                                     *)
(*   EnvSpec   one Environment driven through get_initial_state and        *)
(*             execute with every outcome the simulator can produce;       *)
(*   FrameSpec one Environment driven through get_initial_state and        *)
(*             execute with every screen of the simulator told apart.      *)
(***************************************************************************)
EXTENDS Integers, Sequences, FiniteSets, TLC

\* ------------------------------------------------------------ constants

\* Threads train() starts.  The source sets 4; the model runs this many.
NUM_CONCURRENT == 2

\* Iterations of the learning loop.  The source sets 100; the model runs this many.
T_max == 6

\* The cadence of "if T % 5 == 0".
FlushFrequency == 5

\* GAMMA, in hundredths (the source sets 0.01).
GAMMA == 1

\* Environment.frames_to_skip.
frames_to_skip == 4

\* Environment.buffer_length: the slots of screen_buffer.
buffer_length == 2

\* Environment.agent_history_length.
agent_history_length == 4

\* Environment.max_start_nullops.  The source sets 30; the model draws up to this.
max_start_nullops == 2

\* What ale.lives() returns right after reset_game() or loadROM().
FullLives == 2

\* Number of trainable tensors of one network; main() reads index 2.
NumParams == 3

Workers == 0 .. (NUM_CONCURRENT - 1)

ParamIdx == 0 .. (NumParams - 1)

\* A np.random.RandomState is modelled by the number of draws made from it,
\* saturating at the last value; what a draw returns is chosen by the caller.
RngStates == 0 .. 2

RandomState == 0

Draw(s) == IF s + 1 \in RngStates THEN s + 1 ELSE s

\* Per-tick rewards the simulator may pay.
RewardVals == {0 - 1, 0, 1}

\* A raw frame is named by where its content comes from: Empty is memory that
\* np.empty handed out and nothing has written (its content is arbitrary), a
\* positive number is a screen getScreenGrayscale has delivered.
Empty == 0

\* The screen where the specification does not tell one screen from another.
Screen == 1

\* What one ale.act() does to the simulator: the reward it returns, whether a
\* life is lost and whether the game ends, and the screen getScreenGrayscale
\* delivers after it.  One thing happens per tick.
Quiet == [reward |-> 0, lose_life |-> FALSE, over |-> FALSE, frame |-> Screen]

TickOutcome ==
  { [Quiet EXCEPT !.reward = r] : r \in RewardVals }
    \cup { [Quiet EXCEPT !.lose_life = TRUE], [Quiet EXCEPT !.over = TRUE] }

\* Every run of frames_to_skip ticks.
TickSeqs == [1 .. frames_to_skip -> TickOutcome]

\* The null actions of an episode start: k random ones, k drawn from
\* 0 .. max_start_nullops, then agent_history_length - 1 more.  The rewards of
\* these ticks are dropped by the code, so only reward 0 is enumerated.
NullOpRuns ==
  UNION { [1 .. (k + agent_history_length - 1) ->
             { o \in TickOutcome : o.reward = 0 }] :
          k \in 0 .. max_start_nullops }

\* The episode start the threads of Spec meet: one random null action and a
\* simulator that stays quiet.
QuietNullOps == [t \in 1 .. agent_history_length |-> Quiet]

\* The runs of ticks the threads of Spec meet: the first tick pays 1 and
\* nothing else happens, or the first two ticks pay -1 each and a life is lost
\* on tick 3.
WorkerTickSeqs ==
  { [t \in 1 .. frames_to_skip |->
       [Quiet EXCEPT !.reward = IF ev = "life" THEN (IF t < 3 THEN 0 - 1 ELSE 0)
                                ELSE (IF t = 1 THEN 1 ELSE 0),
                     !.lose_life = (ev = "life" /\ t = 3)]] :
    ev \in {"none", "life"} }

VARIABLES
  mainpc,                 \* where main() is
  thread_id,              \* loop index of train()'s two loops
  pc,                     \* where each actor-learner thread is
  T,                      \* each thread's T
  terminal,               \* each thread's terminal (result of execute)
  state,                  \* each thread's state
  new_state,              \* each thread's new_state (result of execute)
  reward,                 \* each thread's reward (after np.clip)
  y,                      \* each thread's y, in hundredths
  env,                    \* each thread's Environment
  ale_io_lock,            \* the set of threads holding ale_io_lock ({} = free)
  rng,                    \* GlobalThread.rng
  network_params,         \* trainable variables of scope network_params
  target_network_params,  \* trainable variables of scope target_network_params
  grads,                  \* the variables of scope grads_i, per thread i
  placeholder,            \* the variables of placeholder_gradients
  applyCalls,             \* per thread: runs of self.apply_gradients
  zeroCalls,              \* per thread: runs of _zero_out_gradients_ops[i]
  syncCalls,              \* runs of _reset_target_network_params
  writers,                \* per object: the threads that have written it
  hpc,                    \* FlushSpec: where each thread is
  e,                      \* EnvSpec, FrameSpec: the Environment
  epc,                    \* EnvSpec, FrameSpec: Ready, InEpisode or Terminal
  ret,                    \* EnvSpec, FrameSpec: what the last call returned
  ale                     \* FrameSpec: the simulator's tick count, the count
                          \* at the last reset_game, the ticks of the last call

vars == << mainpc, thread_id, pc, T, terminal, state, new_state,
           reward, y, env,
           ale_io_lock, rng,
           network_params, target_network_params, grads, placeholder,
           applyCalls, zeroCalls, syncCalls, writers, hpc, e, epc, ret,
           ale >>

threadVars == << mainpc, thread_id, pc, T, terminal, state, new_state,
                reward, y, env,
                ale_io_lock, rng >>

envVars == << e, epc, ret, ale >>

\* ---------------------------------------------------------- Environment

\* Environment.__init__ after init_ale: the simulator is loaded, no episode
\* has started (start_lives is set by _init_new_episode).
NewEnvironment ==
  [lives |-> FullLives, game_over |-> FALSE, start_lives |-> 0,
   rng |-> RandomState, index |-> 0,
   screen_buffer |-> [s \in 0 .. (buffer_length - 1) |-> Empty],
   state_buffer |-> << >>]

\* The slot of screen_buffer that is not slot i.
OtherIndex(i) == IF i = 1 THEN 0 ELSE 1

\* Environment._act: one simulator tick; the screen goes to the slot at index
\* and index moves to the other slot.
Act(en, o) ==
  [en EXCEPT !.lives = IF o.lose_life /\ en.lives > 0 THEN en.lives - 1
                       ELSE en.lives,
             !.game_over = en.game_over \/ o.over,
             !.screen_buffer[en.index] = o.frame,
             !.index = OtherIndex(en.index)]

RECURSIVE ActAll(_, _, _)
ActAll(en, outs, n) ==
  IF n = 0 THEN en ELSE Act(ActAll(en, outs, n - 1), outs[n])

RECURSIVE SumRewards(_, _)
SumRewards(outs, n) ==
  IF n = 0 THEN 0 ELSE SumRewards(outs, n - 1) + outs[n].reward

\* _repeat_action leaving its loop after the tick that costs a life or ends
\* the game.
RepeatAction_StopAtEnd(en, outs) ==
  LET ends == { t \in 1 .. frames_to_skip : outs[t].lose_life \/ outs[t].over }
      n == IF ends = {} THEN frames_to_skip
           ELSE CHOOSE t \in ends : \A u \in ends : t <= u
  IN  [env |-> ActAll(en, outs, n), reward |-> SumRewards(outs, n)]

\* Environment._repeat_action: frames_to_skip ticks, the rewards summed.
RepeatAction(en, outs) ==
  [env |-> ActAll(en, outs, frames_to_skip),
   reward |-> SumRewards(outs, frames_to_skip)]

\* _did_episode_end with <= written for <.
DidEpisodeEnd_LessOrEqual(en) ==
  LET loss_of_life == en.lives <= en.start_lives
  IN  en.game_over \/ loss_of_life

\* Environment._did_episode_end.
DidEpisodeEnd(en) ==
  LET loss_of_life == en.lives < en.start_lives
  IN  en.game_over \/ loss_of_life

\* Environment.get_preprocessed_frame: the pixelwise maximum of the two slots
\* of screen_buffer, resized.  The result is named by the contents it is
\* computed from; the maximum does not depend on their order.
GetPreprocessedFrame(en) ==
  { en.screen_buffer[en.index], en.screen_buffer[OtherIndex(en.index)] }

\* get_new_state without the popleft: state_buffer keeps its oldest frame.
GetNewState_NoPop(en) ==
  LET current_frame == GetPreprocessedFrame(en)
  IN  [env |-> [en EXCEPT !.state_buffer = Append(@, current_frame)],
       state |-> en.state_buffer \o << current_frame >>]

\* Environment.get_new_state: the frames of state_buffer followed by the
\* current frame; state_buffer drops its oldest frame and takes the current one.
GetNewState(en) ==
  LET current_frame == GetPreprocessedFrame(en)
  IN  [env |-> [en EXCEPT !.state_buffer = Append(Tail(@), current_frame)],
       state |-> en.state_buffer \o << current_frame >>]

\* Environment.execute: (reward, new_state, terminal) and the environment
\* afterwards.
Execute(en, outs) ==
  LET r == RepeatAction(en, outs)
      s == GetNewState(r.env)
  IN  [env |-> s.env, reward |-> r.reward, state |-> s.state,
       terminal |-> DidEpisodeEnd(s.env)]

\* The second loop of _init_new_episode, after the first from ticks of outs:
\* n times a null action and the preprocessed frame appended to state_buffer.
RECURSIVE FillStateBuffer(_, _, _, _)
FillStateBuffer(en, outs, from, n) ==
  IF n = 0 THEN ActAll(en, outs, from)
  ELSE LET a == Act(FillStateBuffer(en, outs, from, n - 1), outs[from + n])
       IN  [a EXCEPT !.state_buffer = Append(@, GetPreprocessedFrame(a))]

\* _init_new_episode without "self.state_buffer = deque()".
InitNewEpisode_KeepsBuffer(en, nullops) ==
  LET reset == [en EXCEPT !.lives = FullLives, !.game_over = FALSE,
                          !.start_lives = FullLives,
                          !.rng = IF max_start_nullops > 0 THEN Draw(en.rng)
                                  ELSE en.rng]
      random_actions == Len(nullops) - (agent_history_length - 1)
  IN  FillStateBuffer(reset, nullops, random_actions, agent_history_length - 1)

\* Environment._init_new_episode: reset_game, start_lives, an empty
\* state_buffer, one draw from the environment's rng for the number of random
\* null actions, then the ticks of the null actions (nullops: what the
\* simulator does on each of them; all but the last agent_history_length - 1
\* are the random ones).
InitNewEpisode(en, nullops) ==
  LET reset == [en EXCEPT !.lives = FullLives, !.game_over = FALSE,
                          !.start_lives = FullLives,
                          !.state_buffer = << >>,
                          !.rng = IF max_start_nullops > 0 THEN Draw(en.rng)
                                  ELSE en.rng]
      random_actions == Len(nullops) - (agent_history_length - 1)
  IN  FillStateBuffer(reset, nullops, random_actions, agent_history_length - 1)

\* get_initial_state with one more null action before get_new_state (the
\* simulator repeats its last tick).
GetInitialState_ExtraTick(en, nullops) ==
  GetNewState(Act(InitNewEpisode(en, nullops), nullops[Len(nullops)]))

\* Environment.get_initial_state: the state it returns and the environment
\* afterwards.
GetInitialState(en, nullops) == GetNewState(InitNewEpisode(en, nullops))

\* ------------------------------------------------------ build_graph ops

Zero == [k \in ParamIdx |-> 0]

InitNetworkParams == [k \in ParamIdx |-> k + 1]

InitTargetNetworkParams == [k \in ParamIdx |-> 0]

\* _assign_add_gradients_ops[i] with gradient g.
AssignAddGradients(gr, i, g) ==
  [gr EXCEPT ![i] = [k \in ParamIdx |-> gr[i][k] + g[k]]]

\* _copy_gradients_ops[i]: the shared slot after the copy.
CopyGradients(gr, i) == [k \in ParamIdx |-> gr[i][k]]

\* apply_gradients: the online parameters after applying what is in the
\* shared slot (the optimizer's step is taken to add the slot's content).
ApplyGradients(net, ph) == [k \in ParamIdx |-> net[k] + ph[k]]

\* _zero_out_gradients_ops[i].
ZeroOutGradients(gr, i) == [gr EXCEPT ![i] = Zero]

\* _reset_target_network_params with range(len(...) - 1): the last tensor is
\* not copied.
ResetTargetNetworkParams_SkipLast(net, tgt) ==
  [k \in 0 .. (Cardinality(DOMAIN tgt) - 1) |->
     IF k < Cardinality(DOMAIN tgt) - 1 THEN net[k] ELSE tgt[k]]

\* _reset_target_network_params: the target parameters after the copy.
ResetTargetNetworkParams(net, tgt) ==
  [k \in 0 .. (Cardinality(DOMAIN tgt) - 1) |-> net[k]]

\* Thread i has written GlobalThread.rng.
WroteRng(w, i) == [w EXCEPT !.rng = @ \cup {i}]

\* Thread i has written the gradient variables of scope grads_j.
WroteGrads(w, j, i) == [w EXCEPT !.grads[j] = @ \cup {i}]

\* Thread i has written the Environment that thread j created.
WroteEnv(w, j, i) == [w EXCEPT !.env[j] = @ \cup {i}]

\* ------------------------------------------------------------------ Init

Init ==
  /\ mainpc = "start"
  /\ thread_id = 0
  /\ pc = [i \in Workers |-> "unstarted"]
  /\ T = [i \in Workers |-> 0]
  /\ terminal = [i \in Workers |-> FALSE]
  /\ state = [i \in Workers |-> << >>]
  /\ new_state = [i \in Workers |-> << >>]
  /\ reward = [i \in Workers |-> 0]
  /\ y = [i \in Workers |-> 0]
  /\ env = [i \in Workers |-> NewEnvironment]
  /\ ale_io_lock = {}
  /\ rng = RandomState
  /\ network_params = InitNetworkParams
  /\ target_network_params = InitTargetNetworkParams
  /\ grads = [i \in Workers |-> Zero]
  /\ placeholder = Zero
  /\ applyCalls = [i \in Workers |-> 0]
  /\ zeroCalls = [i \in Workers |-> 0]
  /\ syncCalls = 0
  /\ writers = [rng |-> {},
                grads |-> [i \in Workers |-> {}],
                env |-> [i \in Workers |-> {}]]
  /\ hpc = [i \in Workers |-> "accumulate"]
  /\ e = NewEnvironment
  /\ epc = "Ready"
  /\ ret = [op |-> "none", reward |-> 0, terminal |-> FALSE, state |-> << >>]
  /\ ale = [frame_number |-> 0, reset_at |-> 0, outs |-> << >>]

\* ------------------------------------------------- main() and train()

flushVars == << network_params, grads, placeholder, applyCalls, hpc >>

\* train(): t.start() for the next thread_id.
StartThread ==
  /\ mainpc = "start"
  /\ thread_id < NUM_CONCURRENT
  /\ pc' = [pc EXCEPT ![thread_id] = "acquire"]
  /\ thread_id' = thread_id + 1
  /\ UNCHANGED << mainpc, T, terminal, state, new_state,
                  reward, y, env,
                  ale_io_lock, rng,
                  target_network_params, zeroCalls, syncCalls, writers >>
  /\ UNCHANGED flushVars
  /\ UNCHANGED envVars

\* train(): all threads started, on to the joins.
StartJoins ==
  /\ mainpc = "start"
  /\ thread_id = NUM_CONCURRENT
  /\ mainpc' = "join"
  /\ thread_id' = 0
  /\ UNCHANGED << pc, T, terminal, state, new_state,
                  reward, y, env,
                  ale_io_lock, rng,
                  target_network_params, zeroCalls, syncCalls, writers >>
  /\ UNCHANGED flushVars
  /\ UNCHANGED envVars

\* A thread has ended: it ran to its end or an exception ended it.
Ended(i) == pc[i] \in {"done", "crashed"}

\* train(): t.join() returns once thread t has ended; after the last join
\* train() returns.
JoinThread ==
  /\ mainpc = "join"
  /\ thread_id < NUM_CONCURRENT
  /\ Ended(thread_id)
  /\ thread_id' = thread_id + 1
  /\ mainpc' = IF thread_id + 1 = NUM_CONCURRENT THEN "returned" ELSE "join"
  /\ UNCHANGED << pc, T, terminal, state, new_state,
                  reward, y, env,
                  ale_io_lock, rng,
                  target_network_params, zeroCalls, syncCalls, writers >>
  /\ UNCHANGED flushVars
  /\ UNCHANGED envVars

\* main(): the assertion that tensor 2 of the two networks is equal.
AssertCopy ==
  /\ mainpc = "returned"
  /\ mainpc' = IF network_params[2] = target_network_params[2]
               THEN "copy_succeeded" ELSE "assertion_failed"
  /\ UNCHANGED << thread_id, pc, T, terminal, state, new_state,
                  reward, y, env,
                  ale_io_lock, rng,
                  target_network_params, zeroCalls, syncCalls, writers >>
  /\ UNCHANGED flushVars
  /\ UNCHANGED envVars

\* ------------------------------------------------ _actor_learner_thread

\* What the steps of a thread before its loop leave alone.
UnchangedByInit ==
  /\ UNCHANGED << mainpc, thread_id, T, terminal, state, new_state,
                  reward, y, rng,
                  target_network_params,
                  zeroCalls, syncCalls >>
  /\ UNCHANGED flushVars
  /\ UNCHANGED envVars

\* A lock whose acquire() never waits.
LockAvailable_Always(lock) == TRUE

\* threading.Lock: acquire() goes through when no thread holds the lock.
LockAvailable(lock) == lock = {}

\* init_ale: ale_io_lock.acquire().
Acquire(i) ==
  /\ pc[i] = "acquire"
  /\ LockAvailable(ale_io_lock)
  /\ ale_io_lock' = ale_io_lock \cup {i}
  /\ pc' = [pc EXCEPT ![i] = "ALEInterface"]
  /\ UNCHANGED << env, writers >>
  /\ UnchangedByInit

\* init_ale: ALEInterface() and setInt.  The constructor returns or raises;
\* an exception ends the thread where it is, the lock still held.
ConstructALE(i) ==
  /\ pc[i] = "ALEInterface"
  /\ \E ok \in BOOLEAN :
       pc' = [pc EXCEPT ![i] = IF ok THEN "loadROM" ELSE "crashed"]
  /\ UNCHANGED << env, writers, ale_io_lock >>
  /\ UnchangedByInit

\* init_ale: ale.loadROM(...).  It returns or raises, as above.
LoadROM(i) ==
  /\ pc[i] = "loadROM"
  /\ \E ok \in BOOLEAN :
       pc' = [pc EXCEPT ![i] = IF ok THEN "release" ELSE "crashed"]
  /\ UNCHANGED << env, writers, ale_io_lock >>
  /\ UnchangedByInit

\* init_ale without ale_io_lock.release().
Release_KeepsLock(i) ==
  /\ pc[i] = "release"
  /\ ale_io_lock' = ale_io_lock
  /\ env' = [env EXCEPT ![i] = NewEnvironment]
  /\ writers' = WroteEnv(writers, i, i)
  /\ pc' = [pc EXCEPT ![i] = "get_initial_state"]
  /\ UnchangedByInit

\* init_ale: ale_io_lock.release(), then the rest of Environment.__init__.
Release(i) ==
  /\ pc[i] = "release"
  /\ ale_io_lock' = ale_io_lock \ {i}
  /\ env' = [env EXCEPT ![i] = NewEnvironment]
  /\ writers' = WroteEnv(writers, i, i)
  /\ pc' = [pc EXCEPT ![i] = "get_initial_state"]
  /\ UnchangedByInit

\* state = environment.get_initial_state(); T = 0.
FirstState(i) ==
  /\ pc[i] = "get_initial_state"
  /\ LET r == GetInitialState(env[i], QuietNullOps)
     IN  /\ env' = [env EXCEPT ![i] = r.env]
         /\ state' = [state EXCEPT ![i] = r.state]
  /\ writers' = WroteEnv(writers, i, i)
  /\ T' = [T EXCEPT ![i] = 0]
  /\ pc' = [pc EXCEPT ![i] = "loop"]
  /\ UNCHANGED << mainpc, thread_id, terminal, new_state, reward, y, rng,
                  ale_io_lock,
                  target_network_params, zeroCalls, syncCalls >>
  /\ UNCHANGED flushVars
  /\ UNCHANGED envVars

\* The loop left one iteration early.
LoopCondition_OneShort(t) == t + 1 < T_max

\* while T < T_max.
LoopCondition(t) == t < T_max

\* if T % 5 == 0.
FlushDue(t) == t % FlushFrequency = 0

\* np.clip left out.
Clip_None(x, lo, hi) == x

\* np.clip(x, lo, hi).
Clip(x, lo, hi) == IF x < lo THEN lo ELSE IF x > hi THEN hi ELSE x

\* np.max of what the target network predicts for state st: a number fixed by
\* the target parameters and the state.  The network itself is not part of
\* dev.py; the last parameter plus the number of frames stands for it.
MaxTargetQ(tp, st) == tp[NumParams - 1] + Len(st)

\* y, in hundredths: the reward if the transition is terminal, else the
\* reward plus GAMMA times the target network's largest prediction.
Target(r, term, q) == IF term THEN 100 * r ELSE 100 * r + GAMMA * q

\* One iteration up to execute.  epsilon is 1, so self.rng.rand() < epsilon
\* always holds: the action is self.rng.randint(...), two draws from the rng
\* all threads share.  The simulator's answer to the action is any run of
\* ticks; the values the two networks predict are read and not used.
SelectAndExecute(i) ==
  /\ pc[i] = "loop"
  /\ LoopCondition(T[i])
  /\ rng' = Draw(Draw(rng))
  /\ \E outs \in WorkerTickSeqs :
       LET r == Execute(env[i], outs)
       IN  /\ env' = [env EXCEPT ![i] = r.env]
           /\ new_state' = [new_state EXCEPT ![i] = r.state]
           /\ terminal' = [terminal EXCEPT ![i] = r.terminal]
           /\ reward' = [reward EXCEPT ![i] = Clip(r.reward, 0 - 1, 1)]
           /\ y' = [y EXCEPT ![i] =
                      Target(Clip(r.reward, 0 - 1, 1), r.terminal,
                             MaxTargetQ(target_network_params, r.state))]
  /\ writers' = WroteEnv(WroteRng(writers, i), i, i)
  /\ pc' = [pc EXCEPT ![i] = IF FlushDue(T[i]) THEN "flush" ELSE "next"]
  /\ UNCHANGED << mainpc, thread_id, T, state, ale_io_lock,
                  target_network_params, zeroCalls, syncCalls >>
  /\ UNCHANGED flushVars
  /\ UNCHANGED envVars

\* The body of "if T % 5 == 0": the thread's gradient variables are zeroed.
\* Nothing is copied to the shared slot and nothing is applied.
Flush(i) ==
  /\ pc[i] = "flush"
  /\ grads' = ZeroOutGradients(grads, i)
  /\ zeroCalls' = [zeroCalls EXCEPT ![i] = @ + 1]
  /\ writers' = WroteGrads(writers, i, i)
  /\ pc' = [pc EXCEPT ![i] = "next"]
  /\ UNCHANGED << mainpc, thread_id, T, terminal, state, new_state,
                  reward, y, env,
                  ale_io_lock, rng,
                  target_network_params, syncCalls >>
  /\ UNCHANGED << network_params, placeholder, applyCalls, hpc >>
  /\ UNCHANGED envVars

\* "if terminal" never taken.
EpisodeEnded_Never(i) == FALSE

\* "if terminal": the last execute has ended the episode.
EpisodeEnded(i) == terminal[i]

\* The end of an iteration: the next state, and T += 1.
NextState(i) ==
  /\ pc[i] = "next"
  /\ IF EpisodeEnded(i)
       THEN LET r == GetInitialState(env[i], QuietNullOps)
            IN  /\ env' = [env EXCEPT ![i] = r.env]
                /\ state' = [state EXCEPT ![i] = r.state]
                /\ writers' = WroteEnv(writers, i, i)
       ELSE /\ state' = [state EXCEPT ![i] = new_state[i]]
            /\ UNCHANGED << env, writers >>
  /\ T' = [T EXCEPT ![i] = @ + 1]
  /\ pc' = [pc EXCEPT ![i] = "loop"]
  /\ UNCHANGED << mainpc, thread_id, terminal, new_state, reward, y,
                  ale_io_lock, rng,
                  target_network_params, zeroCalls, syncCalls >>
  /\ UNCHANGED flushVars
  /\ UNCHANGED envVars

\* After the loop: self._session.run(self._reset_target_network_params).
SyncTarget(i) ==
  /\ pc[i] = "loop"
  /\ ~ LoopCondition(T[i])
  /\ target_network_params' =
       ResetTargetNetworkParams(network_params, target_network_params)
  /\ syncCalls' = syncCalls + 1
  /\ pc' = [pc EXCEPT ![i] = "done"]
  /\ UNCHANGED << mainpc, thread_id, T, terminal, state, new_state,
                  reward, y, env,
                  ale_io_lock, rng,
                  zeroCalls, writers >>
  /\ UNCHANGED flushVars
  /\ UNCHANGED envVars

Thread(i) ==
  \/ Acquire(i)
  \/ ConstructALE(i)
  \/ LoadROM(i)
  \/ Release(i)
  \/ FirstState(i)
  \/ SelectAndExecute(i)
  \/ Flush(i)
  \/ NextState(i)
  \/ SyncTarget(i)

Next ==
  \/ StartThread
  \/ StartJoins
  \/ JoinThread
  \/ AssertCopy
  \/ \E i \in Workers : Thread(i)

Spec == Init /\ [][Next]_vars

\* main() and every thread it has started are scheduled again and again: a
\* step that stays possible is eventually taken.
FairSpec ==
  /\ Spec
  /\ WF_vars(StartThread \/ StartJoins \/ JoinThread \/ AssertCopy)
  /\ \A i \in Workers : WF_vars(Thread(i))

\* ------------------------------------------------- the flush protocol
\* build_graph: "Async apply gradients" consists of two operations: 1) copy
\* thread-local gradients to the global thread's gradient placeholders, 2) have
\* the global thread call apply_gradients using the gradients currently in the
\* placeholders.  _actor_learner_thread lists the calls (accumulate at line
\* 318, copy and apply at lines 322-323, zero at line 326, reset after the
\* loop) and runs only the last two.  Each thread of FlushSpec runs all of
\* them in that order, each op one session.run: FlushRounds times it adds one
\* gradient to its own gradient variables, copies them to the shared slot,
\* applies the slot and zeroes its variables; then it resets the target
\* network.

\* Flushes each thread of FlushSpec makes.
FlushRounds == 2

\* The gradient thread i accumulates: +1 for thread 0, +2 for thread 1, ...
Delta(i) == [k \in ParamIdx |-> i + 1]

UnchangedByFlush ==
  /\ UNCHANGED threadVars
  /\ UNCHANGED envVars

FlushAccumulate(i) ==
  /\ hpc[i] = "accumulate"
  /\ grads' = AssignAddGradients(grads, i, Delta(i))
  /\ writers' = WroteGrads(writers, i, i)
  /\ hpc' = [hpc EXCEPT ![i] = "copy"]
  /\ UNCHANGED << network_params, target_network_params, placeholder,
                  applyCalls, zeroCalls, syncCalls >>
  /\ UnchangedByFlush

FlushCopy(i) ==
  /\ hpc[i] = "copy"
  /\ placeholder' = CopyGradients(grads, i)
  /\ hpc' = [hpc EXCEPT ![i] = "apply"]
  /\ UNCHANGED << network_params, target_network_params, grads,
                  applyCalls, zeroCalls, syncCalls, writers >>
  /\ UnchangedByFlush

\* apply_gradients applied to the variables of both networks.
FlushApply_BothNetworks(i) ==
  /\ hpc[i] = "apply"
  /\ network_params' = ApplyGradients(network_params, placeholder)
  /\ target_network_params' = ApplyGradients(target_network_params, placeholder)
  /\ applyCalls' = [applyCalls EXCEPT ![i] = @ + 1]
  /\ hpc' = [hpc EXCEPT ![i] = "zero"]
  /\ UNCHANGED << grads, placeholder, zeroCalls, syncCalls, writers >>
  /\ UnchangedByFlush

FlushApply(i) ==
  /\ hpc[i] = "apply"
  /\ network_params' = ApplyGradients(network_params, placeholder)
  /\ applyCalls' = [applyCalls EXCEPT ![i] = @ + 1]
  /\ hpc' = [hpc EXCEPT ![i] = "zero"]
  /\ UNCHANGED << target_network_params, grads, placeholder,
                  zeroCalls, syncCalls, writers >>
  /\ UnchangedByFlush

FlushZero(i) ==
  /\ hpc[i] = "zero"
  /\ grads' = ZeroOutGradients(grads, i)
  /\ zeroCalls' = [zeroCalls EXCEPT ![i] = @ + 1]
  /\ writers' = WroteGrads(writers, i, i)
  /\ hpc' = [hpc EXCEPT ![i] = IF applyCalls[i] < FlushRounds THEN "accumulate"
                               ELSE "reset"]
  /\ UNCHANGED << network_params, target_network_params, placeholder,
                  applyCalls, syncCalls >>
  /\ UnchangedByFlush

FlushReset(i) ==
  /\ hpc[i] = "reset"
  /\ target_network_params' =
       ResetTargetNetworkParams(network_params, target_network_params)
  /\ syncCalls' = syncCalls + 1
  /\ hpc' = [hpc EXCEPT ![i] = "done"]
  /\ UNCHANGED << network_params, grads, placeholder,
                  applyCalls, zeroCalls, writers >>
  /\ UnchangedByFlush

FlushNext ==
  \E i \in Workers :
    \/ FlushAccumulate(i)
    \/ FlushCopy(i)
    \/ FlushApply(i)
    \/ FlushZero(i)
    \/ FlushReset(i)

FlushSpec == Init /\ [][FlushNext]_vars

\* ------------------------------------------------- one Environment

UnchangedByEnv ==
  /\ UNCHANGED threadVars
  /\ UNCHANGED flushVars
  /\ UNCHANGED << target_network_params, zeroCalls, syncCalls, writers >>

\* A call of get_initial_state, at any time.
EnvGetInitialState ==
  /\ \E nullops \in NullOpRuns :
       LET r == GetInitialState(e, nullops)
       IN  /\ e' = r.env
           /\ ret' = [op |-> "get_initial_state", reward |-> 0,
                      terminal |-> FALSE, state |-> r.state]
  /\ epc' = "InEpisode"
  /\ UNCHANGED ale
  /\ UnchangedByEnv

\* A call of execute, once an episode has been started.
EnvExecute ==
  /\ epc # "Ready"
  /\ \E outs \in TickSeqs :
       LET r == Execute(e, outs)
       IN  /\ e' = r.env
           /\ ret' = [op |-> "execute", reward |-> r.reward,
                      terminal |-> r.terminal, state |-> r.state]
           /\ epc' = IF r.terminal THEN "Terminal" ELSE "InEpisode"
  /\ UNCHANGED ale
  /\ UnchangedByEnv

EnvNext ==
  \/ EnvGetInitialState
  \/ EnvExecute

EnvSpec == Init /\ [][EnvNext]_vars

\* ------------------------------- one Environment, every screen told apart

\* Ticks the simulator makes before the calls stop.
MaxTicks == 12

\* The run outs made after c ticks: the screen of tick n is named n.
Screens(outs, c) ==
  [t \in 1 .. Len(outs) |-> [outs[t] EXCEPT !.frame = c + t]]

\* The null actions of an episode start with a simulator that stays quiet.
QuietNullOpRuns ==
  { [t \in 1 .. (k + agent_history_length - 1) |-> Quiet] :
    k \in 0 .. max_start_nullops }

\* The runs of ticks execute meets: on tick 3 nothing happens, a life is
\* lost or the game ends; the other ticks pay nothing, 1 each or -1 each.
FrameTickSeqs ==
  { [t \in 1 .. frames_to_skip |->
       [Quiet EXCEPT !.reward = IF t = 3 THEN 0 ELSE r,
                     !.lose_life = (ev = "life" /\ t = 3),
                     !.over = (ev = "over" /\ t = 3)]] :
    ev \in {"none", "life", "over"}, r \in RewardVals }

\* A call of get_initial_state, at any time.
FrameGetInitialState ==
  /\ ale.frame_number < MaxTicks
  /\ \E nullops \in QuietNullOpRuns :
       LET outs == Screens(nullops, ale.frame_number)
           r == GetInitialState(e, outs)
       IN  /\ e' = r.env
           /\ ret' = [op |-> "get_initial_state", reward |-> 0,
                      terminal |-> FALSE, state |-> r.state]
           /\ ale' = [frame_number |-> ale.frame_number + Len(outs),
                      reset_at |-> ale.frame_number, outs |-> outs]
  /\ epc' = "InEpisode"
  /\ UnchangedByEnv

\* A call of execute, once an episode has been started.
FrameExecute ==
  /\ epc # "Ready"
  /\ ale.frame_number < MaxTicks
  /\ \E ticks \in FrameTickSeqs :
       LET outs == Screens(ticks, ale.frame_number)
           r == Execute(e, outs)
       IN  /\ e' = r.env
           /\ ret' = [op |-> "execute", reward |-> r.reward,
                      terminal |-> r.terminal, state |-> r.state]
           /\ epc' = IF r.terminal THEN "Terminal" ELSE "InEpisode"
           /\ ale' = [ale EXCEPT !.frame_number = @ + Len(outs),
                                 !.outs = outs]
  /\ UnchangedByEnv

FrameNext ==
  \/ FrameGetInitialState
  \/ FrameExecute

FrameSpec == Init /\ [][FrameNext]_vars

\* ---------------------------------------------------------------- claims

RECURSIVE SumOfDeltas(_, _)
SumOfDeltas(n, k) ==
  IF n = 0 THEN 0 ELSE SumOfDeltas(n - 1, k) + FlushRounds * Delta(n - 1)[k]

\* C1: applyGradient calls of concurrent threads are serialized and lose no
\* update: when every thread has flushed its known deltas (+1 for thread 0, +2
\* for thread 1), the online parameters are their initial value plus the sum
\* of all the deltas, and never are two threads both between their copy to
\* the shared slot and their apply.
C1_NoLostUpdate ==
  /\ (\A i \in Workers : hpc[i] = "done") =>
       network_params =
         [k \in ParamIdx |-> InitNetworkParams[k] + SumOfDeltas(NUM_CONCURRENT, k)]
  /\ \A i, j \in Workers :
       i # j => ~ (hpc[i] = "apply" /\ hpc[j] = "apply")

\* A thread is inside init_ale, between acquire() and release().
InInitAle(i) == pc[i] \in {"ALEInterface", "loadROM", "release"}

\* C2: simulator construction is mutually exclusive: at most one thread is
\* between acquiring and releasing the initialization lock, and that thread is
\* the one holding it.
C2_MutualExclusion ==
  /\ Cardinality({ i \in Workers : InInitAle(i) }) <= 1
  /\ \A i \in Workers : InInitAle(i) => ale_io_lock = {i}

\* One thread constructs its simulator while another waits for the lock.
C2_Witness ==
  \E i, j \in Workers : i # j /\ InInitAle(i) /\ pc[j] = "acquire"

\* C3: a construction or ROM-load failure is fatal to the failing thread only:
\* once that thread has exited, it does not hold the initialization lock, so
\* the other threads can still acquire it.
C3_FailureFreesLock ==
  \A i \in Workers : pc[i] = "crashed" => i \notin ale_io_lock

\* C4: after exactly FlushFrequency = 5 iterations with no terminal
\* transition (the thread has started one episode only), the thread has made
\* exactly one applyGradient call and its gradient variables are zero.
C4_OneApplyAfterFive ==
  \A i \in Workers :
    (pc[i] = "loop" /\ T[i] = FlushFrequency /\ env[i].rng = 1) =>
      (applyCalls[i] = 1 /\ grads[i] = Zero)

\* C5: a flush applies and never discards: a thread's gradient variables are
\* zeroed only after their content has been applied, so it has never zeroed
\* more often than it has applied.
C5_ZeroOnlyAfterApply ==
  \A i \in Workers : zeroCalls[i] <= applyCalls[i]

C7_TargetEqualsOnline ==
  mainpc \in {"returned", "copy_succeeded", "assertion_failed"} =>
    target_network_params = network_params

\* train() has returned after every thread ran its loop and its syncTarget.
C7_Witness ==
  /\ mainpc = "returned"
  /\ \A i \in Workers : pc[i] = "done"
  /\ target_network_params # InitTargetNetworkParams

\* C8: the target parameters change only through syncTarget: a step that
\* changes them is a run of _reset_target_network_params and leaves them equal
\* to the online parameters; accumulating, copying, applying and zeroing
\* gradients leave them as they are.
C8_TargetChangesOnlyBySync ==
  [][ target_network_params' # target_network_params =>
        /\ syncCalls' = syncCalls + 1
        /\ target_network_params' = network_params ]_vars

\* After a syncTarget, a later apply has moved the online parameters away
\* from the target parameters, which still hold the synced value.
C8_Witness ==
  /\ syncCalls >= 1
  /\ target_network_params # InitTargetNetworkParams
  /\ target_network_params # network_params

\* C9: apart from the lock and the shared parameters nothing is written by
\* more than one thread: the random state used for action selection has one
\* writer, and gradient variables i and Environment i are written by thread i
\* only.
C9_SingleWriter ==
  /\ Cardinality(writers.rng) <= 1
  /\ \A j \in Workers : writers.grads[j] \subseteq {j}
  /\ \A j \in Workers : writers.env[j] \subseteq {j}

\* C10: execute reports terminal exactly when, after the repeated action, the
\* simulator reports game over or has fewer lives than were recorded at the
\* most recent episode start.
C10_TerminalIff ==
  ret.op = "execute" =>
    (ret.terminal <=> (e.game_over \/ e.lives < e.start_lives))

\* execute has reported terminal for a lost life in a game that is not over.
C10_Witness ==
  /\ ret.op = "execute"
  /\ ret.terminal
  /\ ~ e.game_over
  /\ e.lives < e.start_lives

\* C11: every execute makes exactly frames_to_skip = 4 simulator ticks, each
\* capturing one raw frame, and returns the sum of the four per-tick rewards,
\* also when a life is lost or the game ends on an earlier tick; the terminal
\* flag is then true.  After the call the two slots of screen_buffer hold the
\* screens of ticks 3 and 4.
C11_FourTicksSummed ==
  ret.op = "execute" =>
    /\ Len(ale.outs) = 4
    /\ ret.reward = ale.outs[1].reward + ale.outs[2].reward
                      + ale.outs[3].reward + ale.outs[4].reward
    /\ e.screen_buffer[OtherIndex(e.index)] = ale.outs[4].frame
    /\ e.screen_buffer[e.index] = ale.outs[3].frame
    /\ (\E t \in 1 .. 4 : ale.outs[t].lose_life \/ ale.outs[t].over)
         => ret.terminal

\* execute has returned 3 for a run that lost a life on tick 3 and was paid 1
\* on each other tick.
C11_Witness ==
  /\ ret.op = "execute"
  /\ ale.outs[3].lose_life
  /\ ale.outs[4].reward = 1
  /\ ret.reward = 3
  /\ ret.terminal

\* C12: every state a call returns holds exactly agent_history_length = 4
\* frames, state_buffer holds exactly agent_history_length - 1 = 3 frames
\* between calls, and the state execute returns is the state the previous
\* call of the episode returned with its oldest frame dropped and exactly one
\* new frame appended.
C12_SlidingWindow ==
  [][ /\ Len(ret'.state) = 4
      /\ Len(e'.state_buffer) = 3
      /\ ret'.op = "execute" =>
           /\ SubSeq(ret'.state, 1, 3) = SubSeq(ret.state, 2, 4)
           /\ \A j \in 1 .. 4 : ret.state[j] # ret'.state[4] ]_vars

\* execute has returned for the second time in an episode.
C12_Witness ==
  /\ ret.op = "execute"
  /\ Len(ret.state) = 4
  /\ ale.frame_number - ale.reset_at >= 2 * frames_to_skip + 3

\* C13: get_preprocessed_frame only reads screen_buffer when its two slots
\* hold real raw captures that are the two most recent ticks of the current
\* simulator run: every frame of a returned state is computed from two
\* different screens, neither one memory nothing has written nor a screen
\* captured before the last reset_game.
C13_TwoCapturesOfThisRun ==
  ret.op # "none" =>
    \A j \in 1 .. Len(ret.state) :
      /\ Cardinality(ret.state[j]) = buffer_length
      /\ \A f \in ret.state[j] : f # Empty /\ f > ale.reset_at

\* An episode has been started on the Environment and has not ended.
InEpisode(en) == en.start_lives > 0 /\ ~ DidEpisodeEnd(en)

\* C14: a thread calls execute only on an Environment that is in an episode:
\* get_initial_state comes before the first execute; after an execute that
\* returns terminal the thread's next operation on the Environment is
\* get_initial_state, and what it returns becomes state; after an execute
\* that does not return terminal, what execute returned becomes state.
C14_ExecuteInEpisode ==
  [][ \A i \in Workers :
        /\ (pc[i] = "loop" /\ pc'[i] \in {"flush", "next"})
             => InEpisode(env[i])
        /\ pc[i] = "flush" => env'[i] = env[i]
        /\ (pc[i] = "next" /\ pc'[i] = "loop" /\ terminal[i])
             => /\ InEpisode(env'[i])
                /\ env'[i].lives = env'[i].start_lives
                /\ SubSeq(state'[i], 2, agent_history_length)
                     = env'[i].state_buffer
        /\ (pc[i] = "next" /\ pc'[i] = "loop" /\ ~ terminal[i])
             => /\ env'[i] = env[i]
                /\ state'[i] = new_state[i] ]_vars

\* A thread is about to call execute in the episode it started after an
\* execute that returned terminal.
C14_Witness ==
  \E i \in Workers :
    /\ pc[i] = "loop"
    /\ LoopCondition(T[i])
    /\ terminal[i]
    /\ env[i].rng = 2
    /\ InEpisode(env[i])

\* train() has returned to main().
TrainReturned == mainpc \in {"returned", "copy_succeeded", "assertion_failed"}

\* C15: every thread whose initialization succeeds makes exactly T_max
\* iterations of its loop and then stops, and under fair scheduling train()
\* eventually returns, after all NUM_CONCURRENT threads have finished; nothing
\* blocks but the initialization lock and the final join.
C15_TrainEventuallyReturns ==
  /\ [](\A i \in Workers : pc[i] = "done" => T[i] = T_max)
  /\ [](TrainReturned => \A i \in Workers : Ended(i))
  /\ <>TrainReturned

\* C16: the reward that goes into the learning target is always within
\* [-1, 1], whatever sum execute returned, and when the transition is terminal
\* the target y is that clipped reward exactly: nothing of the target
\* network's prediction is added.
C16_ClippedTarget ==
  \A i \in Workers :
    pc[i] \in {"flush", "next"} =>
      /\ reward[i] >= 0 - 1
      /\ reward[i] <= 1
      /\ terminal[i] => y[i] = 100 * reward[i]

\* A thread has built the target of a terminal transition whose four ticks
\* paid -2 in sum, while the target network predicts a value that is not 0.
C16_Witness ==
  \E i \in Workers :
    /\ pc[i] = "next"
    /\ terminal[i]
    /\ env[i].lives < env[i].start_lives
    /\ reward[i] = 0 - 1
    /\ y[i] = 0 - 100
    /\ MaxTargetQ(target_network_params, new_state[i]) # 0

\* The thread has left Environment.__init__ and is at get_initial_state, in
\* its loop or past it.
PastInit(i) == pc[i] \in {"get_initial_state", "loop", "flush", "next", "done"}

\* C17: ale_io_lock is held only while the simulator is constructed and the
\* ROM is loaded: a thread that is at get_initial_state or in its loop does
\* not hold the lock, and a thread acquires the lock exactly once: it takes
\* the lock on the step that leaves acquire(), on no other step, and never
\* comes back to acquire().
C17_LockOnlyInInit ==
  /\ [](\A i \in Workers : PastInit(i) => i \notin ale_io_lock)
  /\ [][ \A i \in Workers :
            /\ (i \in ale_io_lock' /\ i \notin ale_io_lock)
                 <=> (pc[i] = "acquire" /\ pc'[i] # "acquire")
            /\ pc'[i] = "acquire" => pc[i] \in {"unstarted", "acquire"} ]_vars

\* One thread is in its loop while another holds the lock in init_ale.
C17_Witness ==
  \E i, j \in Workers :
    /\ pc[i] \in {"loop", "flush", "next"}
    /\ i \notin ale_io_lock
    /\ InInitAle(j)
    /\ j \in ale_io_lock

\* C18: get_initial_state resets the simulator, records the start life
\* count, replaces state_buffer with an empty one, makes k null-action ticks
\* with k from 0 .. max_start_nullops, then exactly agent_history_length - 1
\* = 3 more, each followed by one preprocessed frame appended to
\* state_buffer: an episode start makes between 3 and max_start_nullops + 3
\* ticks, and no frame of an earlier episode remains in state_buffer.
C18_EpisodeStart ==
  ret.op = "get_initial_state" =>
    LET ticks == ale.frame_number - ale.reset_at
        k == ticks - 3
    IN  /\ Len(ale.outs) = ticks
        /\ k \in 0 .. max_start_nullops
        /\ ~ e.game_over
        /\ e.start_lives = FullLives
        /\ e.lives = e.start_lives
        /\ \A j \in 1 .. 3 : ale.reset_at + k + j \in ret.state[j]
        /\ Len(e.state_buffer) = 3
        /\ \A j \in 1 .. Len(e.state_buffer) :
             \A f \in e.state_buffer[j] : f > ale.reset_at

\* get_initial_state has returned for an episode that is not the first and
\* has made max_start_nullops random null actions.
C18_Witness ==
  /\ ret.op = "get_initial_state"
  /\ ale.reset_at > 0
  /\ ale.frame_number - ale.reset_at = max_start_nullops + 3

\* C19: in the state get_initial_state returns, the last two of the
\* agent_history_length frames are computed from the same contents of
\* screen_buffer, with no simulator tick between them: the 4th frame
\* duplicates the 3rd, the window covers only 3 distinct observations, and
\* afterwards state_buffer holds the last 3 of those frames, the duplicate
\* included.
C19_InitialWindowDuplicate ==
  ret.op = "get_initial_state" =>
    /\ ret.state[4] = ret.state[3]
    /\ ret.state[4] = { e.screen_buffer[0], e.screen_buffer[1] }
    /\ Cardinality({ ret.state[j] : j \in 1 .. 4 }) = 3
    /\ e.state_buffer = << ret.state[2], ret.state[3], ret.state[4] >>

\* get_initial_state has returned a state whose last two frames are both
\* computed from the screens of the last two ticks.
C19_Witness ==
  /\ ret.op = "get_initial_state"
  /\ ret.state[3] = { ale.frame_number - 1, ale.frame_number }
  /\ ret.state[4] = { ale.frame_number - 1, ale.frame_number }
  /\ ret.state[2] # ret.state[3]

====
